---- MODULE Spec2Model ----
(***************************************************************************)
(* A model of Tetra3d's Model type (src/model.go): dynamic batching,       *)
(* static merging and the per-frame vertex pipeline.                       *)
(*                                                                         *)
(* Pointers are small integers, Nil is the nil pointer.  Floating point    *)
(* values are integers; the inputs are chosen so that every product and    *)
(* sum of the code is exact.                                               *)
(***************************************************************************)
EXTENDS Integers, Sequences, FiniteSets, TLC

\* ------------------------------------------------------------------ bounds
MaxMeshTris == 2        \* triangles of a freshly built Mesh
MaxMergedTris == 5      \* Merge is not called beyond this size of the target Mesh
\* The code's maxTriangleCount is 21845 (src/model.go:286); the model runs
\* the same comparisons against a small stand-in.
maxTriangleCount == 3

Nil == 0
Models == 1..3          \* the Models that exist
Owners == 1..2          \* the Models that batching calls are made on
MeshParts == 1..2       \* the *MeshPart keys that DynamicBatchAdd is given
Receivers == {1}        \* the Models that Merge is called on
Materials == {Nil, 1}

VARIABLES
    Mesh,                \* Mesh[m]: the Mesh of Model m (its MeshParts)
    Transform,           \* Transform[m]: world position, scale and rotation of Model m
    BoundingSphere,      \* BoundingSphere[m]: twice its local position, twice its radius
    merged,              \* the last Merge call: its receiver, its arguments, where it
                         \* placed each source MeshPart and the vertices it copied
    DynamicBatchModels,  \* DynamicBatchModels[m]: map *MeshPart -> []*Model of Model m
    DynamicBatchOwner,   \* DynamicBatchOwner[m]: *Model or Nil
    last,                \* the last call made: whether it returned an error, and
                         \* how many of its arguments it skipped or removed
    \* the vertex pipeline of Model 1 and the first MeshPart of its Mesh
    Skinned,             \* Model.Skinned
    skin,                \* bones and VertexWeights of every vertex, boneInfluence of every bone
    skinMatrix,          \* Model.skinMatrix, in units of 1 / WeightOne
    hooks,               \* Model.VertexTransformFunction and Model.VertexClipFunction
    sortingTriangles,    \* MeshPart.sortingTriangles: ID, depth and rendered of each
    vertexTransforms,    \* Mesh.vertexTransforms: the projected <<x, y, z, w>> of every vertex
    vertexSkinned,       \* Mesh.vertexSkinnedPositions and Mesh.vertexSkinnedNormals
    camera,              \* camera.Far and the vpMatrix of the last ProcessVertices
    hookArgs,            \* the arguments of the last VertexTransformFunction call of every vertex
    SkinRoot,            \* Model.SkinRoot of Model 1
    reassigned,          \* the last ReassignBones call: its argument and whether it panicked
    \* the Mesh of package jank3d (src/mesh.go) and the Vertex objects it points to
    jank3dMesh,          \* Mesh.Vertices, Mesh.Triangles (Vertices, Center, Normal), Mesh.BoundingSphere
    Vertex,              \* Vertex.Position of every Vertex made so far
    cloned               \* the last Mesh.Clone call: whether it panicked, and the Mesh it returned

batchVars == <<DynamicBatchModels, DynamicBatchOwner>>
mergeVars == <<Transform, BoundingSphere, merged>>
boneVars == <<SkinRoot, reassigned>>
pipelineVars ==
    <<Skinned, skin, skinMatrix, hooks, sortingTriangles, vertexTransforms, vertexSkinned, camera,
      hookArgs, boneVars>>

jank3dVars == <<jank3dMesh, Vertex, cloned>>

vars == <<Mesh, mergeVars, batchVars, pipelineVars, jank3dVars, last>>

\* ------------------------------------------------------------------ helpers
RECURSIVE SumSeq(_)
SumSeq(s) == IF s = <<>> THEN 0 ELSE Head(s) + SumSeq(Tail(s))

RECURSIVE SumOver(_, _)
\* the sum of f[k] over the keys k in S
SumOver(f, S) ==
    IF S = {} THEN 0
    ELSE LET k == CHOOSE x \in S : TRUE IN f[k] + SumOver(f, S \ {k})

SeqContains(s, x) == \E i \in 1..Len(s) : s[i] = x

\* the variadic argument lists: up to two Models
ArgLists == UNION {[1..n -> Models] : n \in 0..2}

\* ------------------------------------------------------------------ Mesh
\* A triangle is <<v0, v1, v2>>, a vertex position <<x, y, z>>.
UnitTriangle == <<(<<1, 0, 0>>), (<<0, 1, 0>>), (<<0, 0, 1>>)>>

NewMeshPart(material, n) == [Material |-> material, Tris |-> [i \in 1..n |-> UnitTriangle]]

\* len(part triangles)
TriangleCount(part) == Len(part.Tris)

\* len(mesh.Triangles)
MeshTriangles(mesh) == SumSeq([i \in 1..Len(mesh.MeshParts) |-> TriangleCount(mesh.MeshParts[i])])

\* ------------------------------------------------------------------ dynamic batching
\* A batch state: dbm is DynamicBatchModels, owner is DynamicBatchOwner of
\* every Model, err is whether DynamicBatchAdd has returned its error; skipped
\* and removed count the arguments a call passed over and took out.
BatchState ==
    [dbm |-> DynamicBatchModels, owner |-> DynamicBatchOwner, err |-> FALSE,
     skipped |-> 0, removed |-> 0]

\* mutant: the search returns after the first element of each slice
modelAlreadyDynamicallyBatched_FirstOnly(dbm, model, batchedModel) ==
    \E mp \in DOMAIN dbm[model] :
        Len(dbm[model][mp]) > 0 /\ dbm[model][mp][1] = batchedModel

modelAlreadyDynamicallyBatched(dbm, model, batchedModel) ==
    \E mp \in DOMAIN dbm[model] : SeqContains(dbm[model][mp], batchedModel)

DynamicBatchTriangleCount(dbm, model) ==
    SumOver([mp \in DOMAIN dbm[model] |->
                SumSeq([i \in 1..Len(dbm[model][mp]) |-> MeshTriangles(Mesh[dbm[model][mp][i]])])],
            DOMAIN dbm[model])

\* model.DynamicBatchModels[meshPart] = append(model.DynamicBatchModels[meshPart], other),
\* the key being created when absent
MapAppend(f, meshPart, other) ==
    [k \in DOMAIN f \cup {meshPart} |->
        IF k = meshPart
        THEN Append(IF meshPart \in DOMAIN f THEN f[meshPart] ELSE <<>>, other)
        ELSE f[k]]

\* mutant: the budget test leaves out the triangles of the Model being added
BatchAddOne_CountOnly(st, model, meshPart, other) ==
    IF st.err THEN st
    ELSE IF model = other \/ modelAlreadyDynamicallyBatched(st.dbm, model, other)
         THEN [st EXCEPT !.skipped = @ + 1]
    ELSE IF DynamicBatchTriangleCount(st.dbm, model) > maxTriangleCount
         THEN [st EXCEPT !.err = TRUE]
    ELSE [st EXCEPT !.dbm = [st.dbm EXCEPT ![model] = MapAppend(@, meshPart, other)],
                    !.owner = [st.owner EXCEPT ![other] = model]]

\* One iteration of DynamicBatchAdd's loop, for the argument other.
BatchAddOne(st, model, meshPart, other) ==
    IF st.err THEN st
    ELSE IF model = other \/ modelAlreadyDynamicallyBatched(st.dbm, model, other)
         THEN [st EXCEPT !.skipped = @ + 1]
    ELSE IF DynamicBatchTriangleCount(st.dbm, model) + MeshTriangles(Mesh[other]) > maxTriangleCount
         THEN [st EXCEPT !.err = TRUE]
    ELSE [st EXCEPT !.dbm = [st.dbm EXCEPT ![model] = MapAppend(@, meshPart, other)],
                    !.owner = [st.owner EXCEPT ![other] = model]]

RECURSIVE BatchAddLoop(_, _, _, _)
BatchAddLoop(st, model, meshPart, batchedModels) ==
    IF batchedModels = <<>> THEN st
    ELSE BatchAddLoop(BatchAddOne(st, model, meshPart, Head(batchedModels)),
                      model, meshPart, Tail(batchedModels))

DynamicBatchAdd(model, meshPart, batchedModels) ==
    LET r == BatchAddLoop(BatchState, model, meshPart, batchedModels) IN
    /\ DynamicBatchModels' = r.dbm
    /\ DynamicBatchOwner' = r.owner
    /\ last' = [op |-> "DynamicBatchAdd", err |-> r.err, skipped |-> r.skipped, removed |-> 0]
    /\ UNCHANGED <<Mesh, mergeVars, pipelineVars, jank3dVars>>

\* the slice without its first element equal to m (the inner loop breaks there)
RemoveFirst(s, m) ==
    IF ~SeqContains(s, m) THEN s
    ELSE LET i == CHOOSE j \in 1..Len(s) : s[j] = m /\ \A k \in 1..(j - 1) : s[k] # m
         IN SubSeq(s, 1, i - 1) \o SubSeq(s, i + 1, Len(s))

\* One iteration of DynamicBatchRemove's first loop, for the argument m.
BatchRemoveOne(st, model, m) ==
    IF modelAlreadyDynamicallyBatched(st.dbm, model, m)
    THEN [st EXCEPT !.dbm = [st.dbm EXCEPT ![model] = [mp \in DOMAIN @ |-> RemoveFirst(@[mp], m)]],
                    !.owner = [st.owner EXCEPT ![m] = Nil],
                    !.removed = @ + 1]
    ELSE st

RECURSIVE BatchRemoveLoop(_, _, _)
BatchRemoveLoop(st, model, batched) ==
    IF batched = <<>> THEN st
    ELSE BatchRemoveLoop(BatchRemoveOne(st, model, Head(batched)), model, Tail(batched))

\* mutant: the empty keys stay
PruneEmpty_Keep(f) == f

\* DynamicBatchRemove's second loop: delete the keys whose slice is empty
PruneEmpty(f) == [mp \in {k \in DOMAIN f : Len(f[k]) # 0} |-> f[mp]]

BatchRemoveResult(st, model, batched) ==
    LET r == BatchRemoveLoop(st, model, batched) IN
    [r EXCEPT !.dbm = [r.dbm EXCEPT ![model] = PruneEmpty(@)]]

DynamicBatchRemove(model, batched) ==
    LET r == BatchRemoveResult(BatchState, model, batched) IN
    /\ DynamicBatchModels' = r.dbm
    /\ DynamicBatchOwner' = r.owner
    /\ last' = [op |-> "DynamicBatchRemove", err |-> FALSE, skipped |-> 0, removed |-> r.removed]
    /\ UNCHANGED <<Mesh, mergeVars, pipelineVars, jank3dVars>>

\* ------------------------------------------------------------------ matrices
\* A Matrix4 is a tuple of 4 rows of 4 entries; a vector is multiplied from
\* the left (v * M), so that the translation is the last row.
NewMatrix4 ==
    <<(<<1, 0, 0, 0>>), (<<0, 1, 0, 0>>), (<<0, 0, 1, 0>>), (<<0, 0, 0, 1>>)>>

NewMatrix4Scale(x, y, z) ==
    <<(<<x, 0, 0, 0>>), (<<0, y, 0, 0>>), (<<0, 0, z, 0>>), (<<0, 0, 0, 1>>)>>

NewMatrix4Translate(x, y, z) ==
    <<(<<1, 0, 0, 0>>), (<<0, 1, 0, 0>>), (<<0, 0, 1, 0>>), (<<x, y, z, 1>>)>>

\* a quarter turn about the Z axis
RotationZ90 ==
    <<(<<0, 1, 0, 0>>), (<<-1, 0, 0, 0>>), (<<0, 0, 1, 0>>), (<<0, 0, 0, 1>>)>>

MultEntry(a, b, i, j) ==
    a[i][1] * b[1][j] + a[i][2] * b[2][j] + a[i][3] * b[3][j] + a[i][4] * b[4][j]

MultRow(a, b, i) ==
    <<MultEntry(a, b, i, 1), MultEntry(a, b, i, 2), MultEntry(a, b, i, 3), MultEntry(a, b, i, 4)>>

Mult(a, b) == <<MultRow(a, b, 1), MultRow(a, b, 2), MultRow(a, b, 3), MultRow(a, b, 4)>>

Transposed(a) ==
    <<(<<a[1][1], a[2][1], a[3][1], a[4][1]>>), (<<a[1][2], a[2][2], a[3][2], a[4][2]>>),
      (<<a[1][3], a[2][3], a[3][3], a[4][3]>>), (<<a[1][4], a[2][4], a[3][4], a[4][4]>>)>>

fastMatrixMultVec(m, v) ==
    <<m[1][1] * v[1] + m[2][1] * v[2] + m[3][1] * v[3] + m[4][1],
      m[1][2] * v[1] + m[2][2] * v[2] + m[3][2] * v[3] + m[4][2],
      m[1][3] * v[1] + m[2][3] * v[2] + m[3][3] * v[3] + m[4][3]>>

\* Node.Transform() of a node with world position p, scale s and rotation r
WorldMatrix(t) ==
    Mult(Mult(NewMatrix4Scale(t.s[1], t.s[2], t.s[3]), t.r),
         NewMatrix4Translate(t.p[1], t.p[2], t.p[3]))

IdentityTransform == [p |-> <<0, 0, 0>>, s |-> <<1, 1, 1>>, r |-> NewMatrix4]

\* ------------------------------------------------------------------ mesh bounds
MeshVertices(mesh) ==
    UNION {UNION {{mesh.MeshParts[i].Tris[j][k] : k \in 1..3} :
                    j \in 1..Len(mesh.MeshParts[i].Tris)} :
             i \in 1..Len(mesh.MeshParts)}

MinOf(S) == CHOOSE x \in S : \A y \in S : x <= y
MaxOf(S) == CHOOSE x \in S : \A y \in S : x >= y

\* Mesh.UpdateBounds: the axis-aligned extent <<min, max>> of the vertices
Dimensions(mesh) ==
    LET vs == MeshVertices(mesh) IN
    IF vs = {} THEN <<(<<0, 0, 0>>), (<<0, 0, 0>>)>>
    ELSE <<[a \in 1..3 |-> MinOf({v[a] : v \in vs})],
           [a \in 1..3 |-> MaxOf({v[a] : v \in vs})]>>

\* twice Dimensions.Center()
Center2(dim) == [a \in 1..3 |-> dim[1][a] + dim[2][a]]

\* Dimensions.MaxSpan(): the largest extent over the three axes
MaxSpan(dim) == MaxOf({dim[2][a] - dim[1][a] : a \in 1..3})

\* NewBoundingSphere("bounding sphere", mesh.Dimensions.MaxSpan() / 2)
NewBoundingSphere(mesh) ==
    [LocalPosition2 |-> <<0, 0, 0>>, Radius2 |-> MaxSpan(Dimensions(mesh))]

\* Model.TransformUpdate: the bounding sphere of a Model with the Mesh mesh
\* and the world transform t (position p, scale s, rotation r).  The Models
\* here have no parent, so the center is that of the Mesh's Dimensions.
TransformUpdate(mesh, t) ==
    LET center == fastMatrixMultVec(t.r, Center2(Dimensions(mesh)))
        dim == <<[a \in 1..3 |-> Dimensions(mesh)[1][a] * t.s[a]],
                 [a \in 1..3 |-> Dimensions(mesh)[2][a] * t.s[a]]>>
    IN [LocalPosition2 |-> [a \in 1..3 |-> 2 * t.p[a] + center[a] * t.s[a]],
        Radius2 |-> MaxSpan(dim)]

\* ------------------------------------------------------------------ static merge
\* Mesh.AddMeshPart(material)
AddMeshPart(mesh, material) ==
    [mesh EXCEPT !.MeshParts = Append(@, [Material |-> material, Tris |-> <<>>])]

\* MeshPart.AddTriangles(verts...), on the MeshPart at index i of the mesh
AddTriangles(mesh, i, tris) ==
    [mesh EXCEPT !.MeshParts[i].Tris = @ \o tris]

\* the matrix Merge multiplies the vertices of other by
MergeMatrix(t, o) ==
    LET inverted0 == NewMatrix4Scale(o.s[1], o.s[2], o.s[3])
        scaleMatrix == NewMatrix4Scale(t.s[1], t.s[2], t.s[3])
        inverted1 == Mult(inverted0, scaleMatrix)
        inverted2 == Mult(inverted1, Mult(Transposed(t.r), o.r))
    IN Mult(inverted2, NewMatrix4Translate(o.p[1] - t.p[1], o.p[2] - t.p[2], o.p[3] - t.p[3]))

\* mutant: the first MeshPart with the material of otherPart, whatever its size
FindTargetPart_MaterialOnly(parts, otherPart) ==
    LET fits == {i \in 1..Len(parts) : parts[i].Material = otherPart.Material}
    IN IF fits = {} THEN 0 ELSE CHOOSE i \in fits : \A j \in fits : i <= j

\* the first MeshPart of the target with the material of otherPart and room
\* for its triangles (an index), or 0 for targetPart == nil
FindTargetPart(parts, otherPart) ==
    LET fits == {i \in 1..Len(parts) :
                    /\ parts[i].Material = otherPart.Material
                    /\ TriangleCount(parts[i]) + TriangleCount(otherPart) < maxTriangleCount}
    IN IF fits = {} THEN 0 ELSE MinOf(fits)

\* mutant: the triangle loop stops one triangle short of TriangleEnd
MergePart_OneShort(st, otherPart, inverted) ==
    LET found == FindTargetPart(st.mesh.MeshParts, otherPart)
        mesh1 == IF found = 0 THEN AddMeshPart(st.mesh, otherPart.Material) ELSE st.mesh
        targetPart == IF found = 0 THEN Len(mesh1.MeshParts) ELSE found
        verts == [j \in 1..(Len(otherPart.Tris) - 1) |->
                    [k \in 1..3 |-> fastMatrixMultVec(inverted, otherPart.Tris[j][k])]]
    IN [mesh |-> AddTriangles(mesh1, targetPart, verts),
        placed |-> Append(st.placed, [before |-> st.mesh.MeshParts, part |-> otherPart,
                                      targetPart |-> targetPart])]

\* The body of the loop over other.Mesh.MeshParts.  st.mesh is the receiver's
\* Mesh; st.placed records, for each source MeshPart handled so far, the
\* receiver's MeshParts before it, the source MeshPart and the index of the
\* MeshPart its triangles were added to.
MergePart(st, otherPart, inverted) ==
    LET found == FindTargetPart(st.mesh.MeshParts, otherPart)
        mesh1 == IF found = 0 THEN AddMeshPart(st.mesh, otherPart.Material) ELSE st.mesh
        targetPart == IF found = 0 THEN Len(mesh1.MeshParts) ELSE found
        verts == [j \in 1..Len(otherPart.Tris) |->
                    [k \in 1..3 |-> fastMatrixMultVec(inverted, otherPart.Tris[j][k])]]
    IN [mesh |-> AddTriangles(mesh1, targetPart, verts),
        placed |-> Append(st.placed, [before |-> st.mesh.MeshParts, part |-> otherPart,
                                      targetPart |-> targetPart])]

RECURSIVE MergeParts(_, _, _)
MergeParts(st, otherParts, inverted) ==
    IF otherParts = <<>> THEN st
    ELSE MergeParts(MergePart(st, Head(otherParts), inverted), Tail(otherParts), inverted)

RECURSIVE MergeModels(_, _, _)
\* the loop over models, the receiver itself being skipped
MergeModels(st, model, models) ==
    IF models = <<>> THEN st
    ELSE LET other == Head(models) IN
         MergeModels(IF model = other THEN st
                     ELSE MergeParts(st, Mesh[other].MeshParts,
                                     MergeMatrix(Transform[model], Transform[other])),
                     model, Tail(models))

\* totalSize: the vertices of the arguments other than the receiver
TotalSize(model, models) ==
    SumSeq([i \in 1..Len(models) |->
               IF models[i] = model THEN 0 ELSE 3 * MeshTriangles(Mesh[models[i]])])

\* the vertices Merge copies: the Model they come from, their position there
\* and the position stored in the receiver's Mesh
CopiedVertices(model, models) ==
    {[src |-> models[i], v |-> v,
      out |-> fastMatrixMultVec(MergeMatrix(Transform[model], Transform[models[i]]), v)] :
        <<i, v>> \in {<<i, v>> \in (1..Len(models)) \X UNION {MeshVertices(Mesh[m]) : m \in Models} :
                        models[i] # model /\ v \in MeshVertices(Mesh[models[i]])}}

NoMerge == [model |-> Nil, models |-> <<>>, placed |-> <<>>, verts |-> {}]

Merge(model, models) ==
    /\ MeshTriangles(Mesh[model]) + TotalSize(model, models) \div 3 <= MaxMergedTris
    /\ IF TotalSize(model, models) = 0
       THEN /\ UNCHANGED <<Mesh, BoundingSphere>>
            /\ merged' = [model |-> model, models |-> models, placed |-> <<>>, verts |-> {}]
       ELSE LET r == MergeModels([mesh |-> Mesh[model], placed |-> <<>>], model, models)
                mesh == r.mesh
            IN
            /\ merged' = [model |-> model, models |-> models, placed |-> r.placed,
                          verts |-> CopiedVertices(model, models)]
            /\ Mesh' = [Mesh EXCEPT ![model] = mesh]
            /\ BoundingSphere' = [BoundingSphere EXCEPT ![model] =
                   [LocalPosition2 |-> Center2(Dimensions(mesh)),
                    Radius2 |-> MaxSpan(Dimensions(mesh))]]
    /\ last' = [op |-> "Merge", err |-> FALSE, skipped |-> 0, removed |-> 0]
    /\ UNCHANGED <<Transform, batchVars, pipelineVars, jank3dVars>>

\* ------------------------------------------------------------------ vertex pipeline
\* Bone weights are counted in halves: WeightOne is the weight 1.0, and
\* skinMatrix holds WeightOne times the matrix of the code.  Positions,
\* normals and translations are even, so that every division is exact.
WeightOne == 2

ZeroMatrix ==
    <<(<<0, 0, 0, 0>>), (<<0, 0, 0, 0>>), (<<0, 0, 0, 0>>), (<<0, 0, 0, 0>>)>>

ScaleRow(r, k) == <<r[1] * k, r[2] * k, r[3] * k, r[4] * k>>
ScaleByScalar(m, k) == <<ScaleRow(m[1], k), ScaleRow(m[2], k), ScaleRow(m[3], k), ScaleRow(m[4], k)>>

AddRow(r, q) == <<r[1] + q[1], r[2] + q[2], r[3] + q[3], r[4] + q[4]>>
Add(a, b) == <<AddRow(a[1], b[1]), AddRow(a[2], b[2]), AddRow(a[3], b[3]), AddRow(a[4], b[4])>>

fastMatrixMultVecW(m, v) ==
    <<m[1][1] * v[1] + m[2][1] * v[2] + m[3][1] * v[3] + m[4][1],
      m[1][2] * v[1] + m[2][2] * v[2] + m[3][2] * v[3] + m[4][2],
      m[1][3] * v[1] + m[2][3] * v[2] + m[3][3] * v[3] + m[4][3],
      m[1][4] * v[1] + m[2][4] * v[2] + m[3][4] * v[3] + m[4][4]>>

\* VectorPool.MultVecW on the skin matrix
MultVecW(m, v) ==
    LET r == fastMatrixMultVec(m, v) IN
    <<r[1] \div WeightOne, r[2] \div WeightOne, r[3] \div WeightOne>>

TriangleSortModes == {"BackToFront", "FrontToBack", "None"}

\* the materials of the pipeline's MeshPart: TriangleSortMode and Shadeless
MaterialTable ==
    <<[TriangleSortMode |-> "FrontToBack", Shadeless |-> TRUE],
      [TriangleSortMode |-> "None", Shadeless |-> FALSE]>>

PipelineMaterials == {Nil} \cup DOMAIN MaterialTable

\* the Model and MeshPart the pipeline runs on
PipelineModel == 1
PipelinePart == Mesh[PipelineModel].MeshParts[1]

\* Vertices are numbered from 0, triangles from 0: the vertices of triangle
\* triID are triID * 3 + 0, 1, 2.
VertexIDs == 0..(3 * Len(PipelinePart.Tris) - 1)
VertexPositions(vertID) == PipelinePart.Tris[(vertID \div 3) + 1][(vertID % 3) + 1]
VertexNormals(vertID) == <<0, 0, 2>>

\* a nil vector.Vector
NoVector == <<>>

\* the vertex hooks a Model can carry (hooks holds Nil or 1, the hook set)
PushBack(vertexPosition, vertexIndex) ==
    <<vertexPosition[1], vertexPosition[2], vertexPosition[3] + 2>>
BehindCamera(vertexPosition, vertexIndex) ==
    <<vertexPosition[1], vertexPosition[2], vertexPosition[3], 0 - 1>>

RECURSIVE SkinLoop_Blend(_, _, _)
SkinLoop_Blend(m, vertID, boneIndex) ==
    IF boneIndex > Len(skin.bones[vertID]) THEN m
    ELSE SkinLoop_Blend(Add(m, ScaleByScalar(skin.boneInfluence[skin.bones[vertID][boneIndex]],
                                             skin.VertexWeights[vertID][boneIndex])),
                        vertID, boneIndex + 1)

RECURSIVE SkinLoop(_, _, _)
\* the loop of skinVertex over the bones of the vertex, from boneIndex on
SkinLoop(m, vertID, boneIndex) ==
    IF boneIndex > Len(skin.bones[vertID]) THEN m
    ELSE LET weightPerc == skin.VertexWeights[vertID][boneIndex]
             bone == skin.bones[vertID][boneIndex]
         IN IF weightPerc = 0 THEN SkinLoop(m, vertID, boneIndex + 1)
            ELSE IF weightPerc = WeightOne
                 THEN ScaleByScalar(skin.boneInfluence[bone], WeightOne)
            ELSE SkinLoop(Add(m, ScaleByScalar(skin.boneInfluence[bone], weightPerc)),
                          vertID, boneIndex + 1)

\* the rest of skinVertex, once the loop has left m in the skinMatrix
SkinResult(m, mNormal, vertID, transformNormal) ==
    [vertOut |-> MultVecW(m, VertexPositions(vertID)),
     normal |-> IF transformNormal THEN MultVecW(mNormal, VertexNormals(vertID)) ELSE NoVector,
     skinMatrix |-> IF transformNormal THEN mNormal ELSE m]

WithNormalRow(m) == <<m[1], m[2], m[3], (<<0, 0, 0, WeightOne>>)>>

\* Matrix4.Clear: every entry set to 0
Clear(m) == ZeroMatrix

skinVertexFrom_NoClear(m, vertID, transformNormal) ==
    LET blended == SkinLoop(m, vertID, 1)
    IN SkinResult(blended, WithNormalRow(blended), vertID, transformNormal)

\* skinVertex called with m in model.skinMatrix: the position, the normal
\* (nil unless asked for) and the skinMatrix it leaves behind
skinVertexFrom(m, vertID, transformNormal) ==
    LET blended == SkinLoop(Clear(m), vertID, 1)
    IN SkinResult(blended, WithNormalRow(blended), vertID, transformNormal)

\* skinVertex, called in the current state
skinVertex(vertID, transformNormal) == skinVertexFrom(skinMatrix, vertID, transformNormal)

\* a call of skinVertex on its own; the position and the normal it returns
\* are noted in vertexSkinned
SkinVertexCall(vertID, transformNormal) ==
    /\ skinMatrix' = skinVertex(vertID, transformNormal).skinMatrix
    /\ vertexSkinned' = [vertexSkinned EXCEPT ![vertID] =
                            [Position |-> skinVertex(vertID, transformNormal).vertOut,
                             Normal |-> skinVertex(vertID, transformNormal).normal]]
    /\ last' = [op |-> "skinVertex", err |-> FALSE, skipped |-> 0, removed |-> 0]
    /\ UNCHANGED <<Mesh, mergeVars, batchVars, Skinned, skin, hooks, sortingTriangles,
                   vertexTransforms, camera, hookArgs, boneVars, jank3dVars>>

\* the least of three clip-space w
MinDepth(ws) ==
    IF ws[1] <= ws[2] /\ ws[1] <= ws[3] THEN ws[1]
    ELSE IF ws[2] <= ws[3] THEN ws[2] ELSE ws[3]

\* a vertex after the hook, if the Model carries one
transformFunc(vertPos, index) ==
    IF hooks.VertexTransformFunction # Nil THEN PushBack(vertPos, index) ELSE vertPos

\* no call of the hook yet
NoHookCall == [vertexPosition |-> NoVector, vertexIndex |-> 0 - 1]

\* the call transformFunc(vertPos, index), noted in the pipeline state
CallHook(ps, vertPos, index) ==
    IF hooks.VertexTransformFunction # Nil
    THEN [ps EXCEPT !.hookArgs[index] = [vertexPosition |-> vertPos, vertexIndex |-> index]]
    ELSE ps

\* what the skinned path stores for a vertex
StoreSkinned(ps, vertID, sv, vertPos, vpMatrix) ==
    [ps EXCEPT !.skinMatrix = sv.skinMatrix,
               !.vertexTransforms[vertID] = fastMatrixMultVecW(vpMatrix, vertPos),
               !.vertexSkinned[vertID] =
                   IF sv.normal # NoVector THEN [Position |-> vertPos, Normal |-> sv.normal] ELSE @]

HookSkinned(ps, vertID, sv, vpMatrix) ==
    StoreSkinned(CallHook(ps, sv.vertOut, vertID), vertID, sv,
                 transformFunc(sv.vertOut, vertID), vpMatrix)

\* the body of the loop over v of the skinned path, on the pipeline state ps
SkinnedVertex(ps, vertID, vpMatrix, lightingOn) ==
    HookSkinned(ps, vertID, skinVertexFrom(ps.skinMatrix, vertID, lightingOn), vpMatrix)

\* the end of the loop body of either path: t are the three projected
\* vertices of sorting triangle i
VisibilityTest_Never(ps, i, t, far) ==
    [ps EXCEPT !.sortingTriangles[i].depth = MinDepth(<<t[1][4], t[2][4], t[3][4]>>)]

VisibilityTest_DepthComponent(ps, i, t, far) ==
    IF \A v \in 1..3 : ~(t[v][4] >= 0 /\ t[v][3] < far)
    THEN [ps EXCEPT !.sortingTriangles[i].rendered = FALSE]
    ELSE [ps EXCEPT !.sortingTriangles[i].depth = MinDepth(<<t[1][3], t[2][3], t[3][3]>>)]

VisibilityTest(ps, i, t, far) ==
    IF \A v \in 1..3 : ~(t[v][4] >= 0 /\ t[v][3] < far)
    THEN [ps EXCEPT !.sortingTriangles[i].rendered = FALSE]
    ELSE [ps EXCEPT !.sortingTriangles[i].depth = MinDepth(<<t[1][4], t[2][4], t[3][4]>>)]

TestTriangle(ps, i, triID, far) ==
    VisibilityTest(ps, i, <<ps.vertexTransforms[triID * 3], ps.vertexTransforms[triID * 3 + 1],
                            ps.vertexTransforms[triID * 3 + 2]>>, far)

SkinnedVertices(ps, triID, vpMatrix, lightingOn) ==
    SkinnedVertex(SkinnedVertex(SkinnedVertex(ps, triID * 3, vpMatrix, lightingOn),
                                triID * 3 + 1, vpMatrix, lightingOn),
                  triID * 3 + 2, vpMatrix, lightingOn)

\* the body of the loop over the sorting triangles of the skinned path
SkinnedTriangle(ps, i, vpMatrix, far, lightingOn) ==
    TestTriangle(SkinnedVertices(ps, ps.sortingTriangles[i].ID, vpMatrix, lightingOn),
                 i, ps.sortingTriangles[i].ID, far)

\* The hook may write its result into the vector it is given and return
\* that vector (as the one of the shader example does): given the Mesh's own
\* vector, it changes the Mesh.
PlainVertex_NoClone(ps, vertID, mvp) ==
    [CallHook(ps, ps.VertexPositions[vertID], vertID)
        EXCEPT !.vertexTransforms[vertID] =
                   fastMatrixMultVecW(mvp, transformFunc(ps.VertexPositions[vertID], vertID)),
               !.VertexPositions[vertID] = transformFunc(ps.VertexPositions[vertID], vertID)]

\* the body of the loop over i (the vertices) of the non-skinned path; the
\* hook is given v0.Clone(), so what it writes there reaches no stored vector
PlainVertex(ps, vertID, mvp) ==
    [CallHook(ps, ps.VertexPositions[vertID], vertID)
        EXCEPT !.vertexTransforms[vertID] =
                   fastMatrixMultVecW(mvp, transformFunc(ps.VertexPositions[vertID], vertID))]

PlainVertices(ps, triID, mvp) ==
    PlainVertex(PlainVertex(PlainVertex(ps, triID * 3, mvp), triID * 3 + 1, mvp),
                triID * 3 + 2, mvp)

\* the body of the loop over the sorting triangles of the non-skinned path
PlainTriangle(ps, i, mvp, far) ==
    TestTriangle(PlainVertices([ps EXCEPT !.sortingTriangles[i].rendered = TRUE],
                               ps.sortingTriangles[i].ID, mvp),
                 i, ps.sortingTriangles[i].ID, far)

RECURSIVE SkinnedLoop(_, _, _, _, _)
SkinnedLoop(ps, i, vpMatrix, far, lightingOn) ==
    IF i > Len(ps.sortingTriangles) THEN ps
    ELSE SkinnedLoop(SkinnedTriangle(ps, i, vpMatrix, far, lightingOn),
                     i + 1, vpMatrix, far, lightingOn)

RECURSIVE PlainLoop(_, _, _, _)
PlainLoop(ps, i, mvp, far) ==
    IF i > Len(ps.sortingTriangles) THEN ps
    ELSE PlainLoop(PlainTriangle(ps, i, mvp, far), i + 1, mvp, far)

Less_Ascending(a, b, sortMode) == a.depth < b.depth

\* the less function given to sort.SliceStable
Less(a, b, sortMode) ==
    IF sortMode = "BackToFront" THEN a.depth > b.depth ELSE a.depth < b.depth

RECURSIVE InsertStable(_, _, _)
\* x put into the sorted s, behind every element it is not less than
InsertStable(s, x, sortMode) ==
    IF s = <<>> THEN <<x>>
    ELSE IF Less(x, Head(s), sortMode) THEN <<x>> \o s
    ELSE <<Head(s)>> \o InsertStable(Tail(s), x, sortMode)

RECURSIVE SliceStableFrom(_, _, _, _)
SliceStableFrom(sorted, s, i, sortMode) ==
    IF i > Len(s) THEN sorted
    ELSE SliceStableFrom(InsertStable(sorted, s[i], sortMode), s, i + 1, sortMode)

\* sort.SliceStable
SliceStable(s, sortMode) == SliceStableFrom(<<>>, s, 1, sortMode)

\* the sort that ends ProcessVertices
SortTriangles(s, material) ==
    LET sortMode == IF material # Nil THEN MaterialTable[material].TriangleSortMode
                    ELSE "BackToFront"
    IN IF sortMode \in {"BackToFront", "FrontToBack"} THEN SliceStable(s, sortMode) ELSE s

\* the Meshes with positions as the VertexPositions of the pipeline's Mesh
WithVertexPositions(meshes, positions) ==
    [meshes EXCEPT ![PipelineModel].MeshParts[1].Tris =
        [t \in 1..Len(@) |-> <<positions[3 * (t - 1)], positions[3 * (t - 1) + 1],
                               positions[3 * (t - 1) + 2]>>]]

\* ProcessVertices(vpMatrix, camera, meshPart, scene); sceneLighting is
\* whether the scene is there and lit.  (No material is a billboard.)
ProcessVertices(vpMatrix, far, sceneLighting) ==
    LET material == PipelinePart.Material
        lightingOn == sceneLighting /\ (material = Nil \/ ~MaterialTable[material].Shadeless)
        ps == [skinMatrix |-> skinMatrix, sortingTriangles |-> sortingTriangles,
               vertexTransforms |-> vertexTransforms, vertexSkinned |-> vertexSkinned,
               hookArgs |-> hookArgs,
               VertexPositions |-> [vertID \in VertexIDs |-> VertexPositions(vertID)]]
        mvp == Mult(WorldMatrix(Transform[PipelineModel]), vpMatrix)
        r == IF Skinned THEN SkinnedLoop(ps, 1, vpMatrix, far, lightingOn)
             ELSE PlainLoop(ps, 1, mvp, far)
    IN /\ skinMatrix' = r.skinMatrix
       /\ vertexTransforms' = r.vertexTransforms
       /\ vertexSkinned' = r.vertexSkinned
       /\ hookArgs' = r.hookArgs
       /\ sortingTriangles' = SortTriangles(r.sortingTriangles, material)
       /\ camera' = [Far |-> far, vpMatrix |-> vpMatrix]
       /\ Mesh' = WithVertexPositions(Mesh, r.VertexPositions)
       /\ last' = [op |-> "ProcessVertices", err |-> FALSE, skipped |-> 0, removed |-> 0]
       /\ UNCHANGED <<mergeVars, batchVars, Skinned, skin, hooks, boneVars, jank3dVars>>

\* Model.Skinned is a field the application sets
SetSkinned(b) ==
    /\ Skinned # b
    /\ Skinned' = b
    /\ last' = [op |-> "SetSkinned", err |-> FALSE, skipped |-> 0, removed |-> 0]
    /\ UNCHANGED <<Mesh, mergeVars, batchVars, skin, skinMatrix, hooks, sortingTriangles,
                   vertexTransforms, vertexSkinned, camera, hookArgs, boneVars, jank3dVars>>

\* ------------------------------------------------------------------ jank3d Mesh
\* Vertex objects are numbered in the order NewVertex made them; a Mesh and
\* a Triangle hold their numbers.  Coordinates are multiples of 6, so that
\* the thirds of a Center and the halves of a sphere's Position are exact.
\* The sphere's radius is kept as DiameterSq, the square of twice the Radius.
MaxTriangles == 2
MaxCoordinate == 6

NoMesh == [Vertices |-> <<>>, Triangles |-> <<>>,
           BoundingSphere |-> [Position |-> <<0, 0, 0>>, DiameterSq |-> 0]]

Sub(a, b) == <<a[1] - b[1], a[2] - b[2], a[3] - b[3]>>

Cross(a, b) ==
    <<a[2] * b[3] - a[3] * b[2], a[3] * b[1] - a[1] * b[3], a[1] * b[2] - a[2] * b[1]>>

MagnitudeSq(a) == a[1] * a[1] + a[2] * a[2] + a[3] * a[3]

Abs(x) == IF x < 0 THEN 0 - x ELSE x

\* the length of a vector (of one along an axis, where it is whole)
Magnitude(a) == CHOOSE n \in 0..(Abs(a[1]) + Abs(a[2]) + Abs(a[3])) : n * n = MagnitudeSq(a)

Unit(a) == <<a[1] \div Magnitude(a), a[2] \div Magnitude(a), a[3] \div Magnitude(a)>>

calculateNormal(p1, p2, p3) == Unit(Cross(Sub(p2, p1), Sub(p3, p2)))

\* Triangle.RecalculateCenter, on the Vertex objects vertex
RecalculateCenter(tri, vertex) ==
    [tri EXCEPT !.Center =
        <<(vertex[tri.Vertices[1]][1] + vertex[tri.Vertices[2]][1] + vertex[tri.Vertices[3]][1]) \div 3,
          (vertex[tri.Vertices[1]][2] + vertex[tri.Vertices[2]][2] + vertex[tri.Vertices[3]][2]) \div 3,
          (vertex[tri.Vertices[1]][3] + vertex[tri.Vertices[2]][3] + vertex[tri.Vertices[3]][3]) \div 3>>]

\* Triangle.RecalculateNormal
RecalculateNormal(tri, vertex) ==
    [tri EXCEPT !.Normal = calculateNormal(vertex[tri.Vertices[1]], vertex[tri.Vertices[2]],
                                           vertex[tri.Vertices[3]])]

\* NewTriangle followed by Triangle.SetVertices
SetVertices(verts, vertex) ==
    RecalculateNormal(
        RecalculateCenter([Vertices |-> verts, Center |-> <<0, 0, 0>>, Normal |-> <<0, 0, 0>>],
                          vertex),
        vertex)

\* the if / else if of UpdateBounds on one axis
ExtendAxis(ext, pos, k) ==
    IF pos[k] < ext.extent0[k] THEN [ext EXCEPT !.extent0[k] = pos[k]]
    ELSE IF pos[k] > ext.extent1[k] THEN [ext EXCEPT !.extent1[k] = pos[k]]
    ELSE ext

RECURSIVE Extents(_, _, _, _)
\* the loop of UpdateBounds over mesh.Vertices[i..]: extent0 and extent1
Extents(ext, vertices, vertex, i) ==
    IF i > Len(vertices) THEN ext
    ELSE Extents(ExtendAxis(ExtendAxis(ExtendAxis(ext, vertex[vertices[i]], 1),
                                       vertex[vertices[i]], 2),
                            vertex[vertices[i]], 3),
                 vertices, vertex, i + 1)

\* Mesh.UpdateBounds: the sphere of the mesh m
UpdateBoundsOf(m, vertex) ==
    LET ext == Extents([extent0 |-> <<0, 0, 0>>, extent1 |-> <<0, 0, 0>>], m.Vertices, vertex, 1)
    IN [m EXCEPT !.BoundingSphere =
           [Position |-> <<(ext.extent0[1] + ext.extent1[1]) \div 2,
                           (ext.extent0[2] + ext.extent1[2]) \div 2,
                           (ext.extent0[3] + ext.extent1[3]) \div 2>>,
            DiameterSq |-> MagnitudeSq(Sub(ext.extent1, ext.extent0))]]

RECURSIVE AddTrianglesLoop(_, _, _, _)
\* the loop of Mesh.AddTriangles from verts[i] on
AddTrianglesLoop(m, verts, vertex, i) ==
    IF i > Len(verts) THEN m
    ELSE AddTrianglesLoop(
             [m EXCEPT !.Triangles = Append(@, SetVertices(<<verts[i], verts[i + 1], verts[i + 2]>>, vertex)),
                       !.Vertices = @ \o verts],
             verts, vertex, i + 3)

\* the Vertex objects after NewVertex for each of positions
NewVertices(positions) ==
    [id \in 1..(Len(Vertex) + Len(positions)) |->
        IF id <= Len(Vertex) THEN Vertex[id] ELSE positions[id - Len(Vertex)]]

\* mesh.AddTriangles(verts...) with a new Vertex for each of positions
MeshAddTriangles(positions) ==
    /\ Len(jank3dMesh.Triangles) + Len(positions) \div 3 <= MaxTriangles
    /\ Vertex' = NewVertices(positions)
    /\ jank3dMesh' = AddTrianglesLoop(jank3dMesh,
                                      [k \in 1..Len(positions) |-> Len(Vertex) + k],
                                      NewVertices(positions), 1)
    /\ last' = [op |-> "AddTriangles", err |-> FALSE, skipped |-> 0, removed |-> 0]
    /\ UNCHANGED <<Mesh, mergeVars, batchVars, pipelineVars, cloned>>

\* mesh.UpdateBounds()
UpdateBounds ==
    /\ jank3dMesh' = UpdateBoundsOf(jank3dMesh, Vertex)
    /\ last' = [op |-> "UpdateBounds", err |-> FALSE, skipped |-> 0, removed |-> 0]
    /\ UNCHANGED <<Mesh, mergeVars, batchVars, pipelineVars, Vertex, cloned>>

RECURSIVE ApplyToVertices(_, _, _, _)
\* the inner loop of ApplyMatrix over tri.Vertices[k..]
ApplyToVertices(vertex, tri, matrix, k) ==
    IF k > Len(tri.Vertices) THEN vertex
    ELSE ApplyToVertices([vertex EXCEPT ![tri.Vertices[k]] = fastMatrixMultVec(matrix, @)],
                         tri, matrix, k + 1)

\* the body of the loop of ApplyMatrix, on triangle i
ApplyToTriangle(st, matrix, i) ==
    [mesh |-> [st.mesh EXCEPT !.Triangles[i] =
                  RecalculateCenter(@, ApplyToVertices(st.vertex, st.mesh.Triangles[i], matrix, 1))],
     vertex |-> ApplyToVertices(st.vertex, st.mesh.Triangles[i], matrix, 1)]

RECURSIVE ApplyToTriangles(_, _, _)
ApplyToTriangles(st, matrix, i) ==
    IF i > Len(st.mesh.Triangles) THEN st
    ELSE ApplyToTriangles(ApplyToTriangle(st, matrix, i), matrix, i + 1)

\* mesh.ApplyMatrix(matrix)
ApplyMatrix(matrix) ==
    LET r == ApplyToTriangles([mesh |-> jank3dMesh, vertex |-> Vertex], matrix, 1) IN
    /\ \A id \in DOMAIN r.vertex : \A k \in 1..3 :
          r.vertex[id][k] >= 0 - MaxCoordinate /\ r.vertex[id][k] <= MaxCoordinate
    /\ Vertex' = r.vertex
    /\ jank3dMesh' = UpdateBoundsOf(r.mesh, r.vertex)
    /\ last' = [op |-> "ApplyMatrix", err |-> FALSE, skipped |-> 0, removed |-> 0]
    /\ UNCHANGED <<Mesh, mergeVars, batchVars, pipelineVars, cloned>>

\* NewMesh(name, verts...): AddTriangles on three vertices at a time, then
\* UpdateBounds
NewMesh(positions) ==
    UpdateBoundsOf(AddTrianglesLoop(NoMesh, [k \in 1..Len(positions) |-> k], positions, 1),
                   positions)

\* no Mesh.Clone call yet
NoClone == [panicked |-> FALSE, newMesh |-> NoMesh]

\* NewTriangle(mesh); mesh is "mesh", the Mesh, or "newMesh", the one
\* Mesh.Clone makes
NewTriangle(mesh) ==
    [Vertices |-> <<>>, Center |-> <<0, 0, 0>>, Normal |-> <<0, 0, 0>>, Mesh |-> mesh]

\* tri.SetVertices(verts...) on st.tri: a panic on fewer than three
TriangleSetVertices(st, verts) ==
    IF Len(verts) < 3 THEN [st EXCEPT !.panicked = TRUE]
    ELSE [st EXCEPT !.tri = RecalculateNormal(
                                RecalculateCenter([st.tri EXCEPT !.Vertices = verts], st.vertex),
                                st.vertex)]

RECURSIVE CloneVertices(_, _, _)
\* the loop of Triangle.Clone over tri.Vertices[k..]: vertex.Clone() makes
\* a new Vertex, which alone is given to SetVertices
CloneVertices(st, tri, k) ==
    IF st.panicked \/ k > Len(tri.Vertices) THEN st
    ELSE CloneVertices(
             TriangleSetVertices([st EXCEPT !.vertex = Append(@, @[tri.Vertices[k]])],
                                 <<Len(st.vertex) + 1>>),
             tri, k + 1)

\* tri.Clone(), of a triangle of the Mesh: the new triangle, the Vertex
\* objects, and whether it panicked
TriangleClone(tri, vertex) ==
    LET st == CloneVertices([tri |-> NewTriangle("mesh"), vertex |-> vertex, panicked |-> FALSE],
                            tri, 1)
    IN IF st.panicked \/ Len(st.tri.Vertices) < 3 THEN [st EXCEPT !.panicked = TRUE]
       ELSE [st EXCEPT !.tri = RecalculateCenter(@, st.vertex)]

RECURSIVE CloneTriangles(_, _, _)
\* the loop of Mesh.Clone over mesh.Triangles[i..]
CloneTriangles(st, mesh, i) ==
    IF st.panicked \/ i > Len(mesh.Triangles) THEN st
    ELSE LET t == TriangleClone(mesh.Triangles[i], st.vertex) IN
         IF t.panicked THEN [st EXCEPT !.panicked = TRUE]
         ELSE CloneTriangles(
                  [st EXCEPT !.newMesh.Triangles = Append(@, [t.tri EXCEPT !.Mesh = "mesh"]),
                             !.vertex = t.vertex],
                  mesh, i + 1)

\* mesh.Clone(); the Vertex objects made before a panic are lost with it
MeshClone ==
    LET r == CloneTriangles([newMesh |-> NewMesh(<<>>), vertex |-> Vertex, panicked |-> FALSE],
                            jank3dMesh, 1)
    IN /\ cloned' = [panicked |-> r.panicked,
                     newMesh |-> IF r.panicked THEN NoMesh ELSE r.newMesh]
       /\ Vertex' = IF r.panicked THEN Vertex ELSE r.vertex
       /\ last' = [op |-> "Clone", err |-> r.panicked, skipped |-> 0, removed |-> 0]
       /\ UNCHANGED <<Mesh, mergeVars, batchVars, pipelineVars, jank3dMesh>>

\* ------------------------------------------------------------------ armatures
\* The scene's nodes: three armatures.  Node 1 is a root with the bones 2
\* ("b1") and, under it, 3 ("b2"); node 4 is a root with the bones 5 ("b1")
\* and 6 ("b2"); node 7 is a root with the one bone 8 ("b1").
Nodes == 1..8

IsBone(node) == node \in {2, 3, 5, 6, 8}

NodeName(node) ==
    IF node \in {2, 5, 8} THEN "b1"
    ELSE IF node \in {3, 6} THEN "b2"
    ELSE IF node = 1 THEN "A" ELSE IF node = 4 THEN "B" ELSE "C"

ChildrenRecursive(node) ==
    IF node = 1 THEN <<2, 3>> ELSE IF node = 2 THEN <<3>>
    ELSE IF node = 4 THEN <<5, 6>> ELSE IF node = 5 THEN <<6>>
    ELSE IF node = 7 THEN <<8>> ELSE <<>>

\* no ReassignBones call yet
NoReassign == [armatureRoot |-> Nil, panicked |-> FALSE]

RECURSIVE BoneMap(_, _)
\* boneMap after the loop over bones[1..n]: the bone of each name, the
\* later of two bones of one name
BoneMap(bones, n) ==
    IF n = 0 THEN <<>>
    ELSE LET before == BoneMap(bones, n - 1) IN
         IF IsBone(bones[n])
         THEN [name \in DOMAIN before \cup {NodeName(bones[n])} |->
                  IF name = NodeName(bones[n]) THEN bones[n] ELSE before[name]]
         ELSE before

\* boneMap[name]: nil for a name that is not in the map
Lookup(boneMap, name) == IF name \in DOMAIN boneMap THEN boneMap[name] ELSE Nil

RECURSIVE ReassignEntries(_, _, _, _)
\* the inner loop of ReassignBones, from entry i of vertex vertexIndex on;
\* reading the name of a nil bone panics
ReassignEntries(st, boneMap, vertexIndex, i) ==
    IF st.panicked \/ i > Len(st.bones[vertexIndex]) THEN st
    ELSE IF st.bones[vertexIndex][i] = Nil THEN [st EXCEPT !.panicked = TRUE]
    ELSE ReassignEntries(
             [st EXCEPT !.bones[vertexIndex][i] = Lookup(boneMap, NodeName(st.bones[vertexIndex][i]))],
             boneMap, vertexIndex, i + 1)

RECURSIVE ReassignVertices(_, _, _)
\* the outer loop of ReassignBones, from vertex vertexIndex on
ReassignVertices(st, boneMap, vertexIndex) ==
    IF st.panicked \/ vertexIndex \notin DOMAIN st.bones THEN st
    ELSE ReassignVertices(ReassignEntries(st, boneMap, vertexIndex, 1), boneMap, vertexIndex + 1)

\* model.ReassignBones(armatureRoot), on Model 1
ReassignBones(armatureRoot) ==
    LET boneMap == BoneMap(ChildrenRecursive(armatureRoot), Len(ChildrenRecursive(armatureRoot)))
        r == ReassignVertices([bones |-> skin.bones, panicked |-> FALSE], boneMap, 0)
    IN /\ IF DOMAIN skin.bones = {}
          THEN /\ reassigned' = [armatureRoot |-> armatureRoot, panicked |-> FALSE]
               /\ UNCHANGED <<SkinRoot, skin>>
          ELSE IF IsBone(armatureRoot)
          THEN /\ reassigned' = [armatureRoot |-> armatureRoot, panicked |-> TRUE]
               /\ UNCHANGED <<SkinRoot, skin>>
          ELSE /\ reassigned' = [armatureRoot |-> armatureRoot, panicked |-> r.panicked]
               /\ SkinRoot' = armatureRoot
               /\ skin' = [skin EXCEPT !.bones = r.bones]
       /\ last' = [op |-> "ReassignBones", err |-> reassigned'.panicked, skipped |-> 0, removed |-> 0]
       /\ UNCHANGED <<Mesh, mergeVars, batchVars, Skinned, skinMatrix, hooks, sortingTriangles,
                      vertexTransforms, vertexSkinned, camera, hookArgs, jank3dVars>>

\* ------------------------------------------------------------------ specification
NoCall == [op |-> "none", err |-> FALSE, skipped |-> 0, removed |-> 0]

\* the pipeline before any frame: NewModel, and a MeshPart whose sorting
\* triangles are those of the first MeshPart in the order they were added
NewSortingTriangles(mesh) ==
    IF Len(mesh.MeshParts) = 0 THEN <<>>
    ELSE [i \in 1..Len(mesh.MeshParts[1].Tris) |-> [ID |-> i - 1, depth |-> 0, rendered |-> FALSE]]

NoSkin == [bones |-> <<>>, VertexWeights |-> <<>>, boneInfluence |-> <<>>]

InitPipeline ==
    /\ Skinned = FALSE
    /\ skin = NoSkin
    /\ skinMatrix = NewMatrix4
    /\ hooks = [VertexTransformFunction |-> Nil, VertexClipFunction |-> Nil]
    /\ sortingTriangles = NewSortingTriangles(Mesh[PipelineModel])
    /\ vertexTransforms = <<>>
    /\ vertexSkinned = <<>>
    /\ hookArgs = <<>>
    /\ SkinRoot = Nil
    /\ reassigned = NoReassign
    /\ camera = [Far |-> 0, vpMatrix |-> NewMatrix4]

\* NewModel on a Mesh of one MeshPart: an empty batch map, no owner, the
\* identity transform.
Init ==
    /\ Mesh \in [Models -> {[MeshParts |-> <<NewMeshPart(Nil, n)>>] : n \in 1..MaxMeshTris}]
    /\ Transform = [m \in Models |-> IdentityTransform]
    /\ BoundingSphere = [m \in Models |-> NewBoundingSphere(Mesh[m])]
    /\ merged = NoMerge
    /\ DynamicBatchModels = [m \in Models |-> <<>>]
    /\ DynamicBatchOwner = [m \in Models |-> Nil]
    /\ InitPipeline
    /\ jank3dMesh = NoMesh
    /\ Vertex = <<>>
    /\ cloned = NoClone
    /\ last = NoCall

Next ==
    \/ \E model \in Owners, meshPart \in MeshParts, batchedModels \in ArgLists :
          DynamicBatchAdd(model, meshPart, batchedModels)
    \/ \E model \in Owners, batched \in ArgLists :
          DynamicBatchRemove(model, batched)

Spec == Init /\ [][Next]_vars

\* Merging: Models at the identity transform whose Meshes have up to two
\* MeshParts, of either material.
InitialParts == {NewMeshPart(mat, n) : mat \in Materials, n \in 1..MaxMeshTris}

InitialMeshes == {[MeshParts |-> parts] : parts \in UNION {[1..n -> InitialParts] : n \in 0..2}}

InitMerge ==
    /\ Mesh \in {f \in [Models -> InitialMeshes] : Len(f[3].MeshParts) = 0}
    /\ Transform = [m \in Models |-> IdentityTransform]
    /\ BoundingSphere = [m \in Models |-> NewBoundingSphere(Mesh[m])]
    /\ merged = NoMerge
    /\ DynamicBatchModels = [m \in Models |-> <<>>]
    /\ DynamicBatchOwner = [m \in Models |-> Nil]
    /\ InitPipeline
    /\ jank3dMesh = NoMesh
    /\ Vertex = <<>>
    /\ cloned = NoClone
    /\ last = NoCall

NextMerge == \E model \in Receivers, models \in ArgLists : Merge(model, models)

SpecMerge == InitMerge /\ [][NextMerge]_vars

\* Merging Models that are placed in the world: Models 1 and 2 have a Mesh
\* of one triangle and a position, a scale and a rotation each.
Positions == {<<0, 0, 0>>, <<1, 0, 0>>, <<0, 2, 0>>}
Scales == {<<1, 1, 1>>, <<2, 2, 2>>}
Rotations == {NewMatrix4, RotationZ90}
Transforms == [p : Positions, s : Scales, r : Rotations]

InitPlaced ==
    /\ Mesh = [m \in Models |-> [MeshParts |-> IF m = 3 THEN <<>> ELSE <<NewMeshPart(Nil, 1)>>]]
    /\ Transform \in {f \in [Models -> Transforms] : f[3] = IdentityTransform}
    /\ BoundingSphere = [m \in Models |-> NewBoundingSphere(Mesh[m])]
    /\ merged = NoMerge
    /\ DynamicBatchModels = [m \in Models |-> <<>>]
    /\ DynamicBatchOwner = [m \in Models |-> Nil]
    /\ InitPipeline
    /\ jank3dMesh = NoMesh
    /\ Vertex = <<>>
    /\ cloned = NoClone
    /\ last = NoCall

SpecPlaced == InitPlaced /\ [][NextMerge]_vars

\* The vertex pipeline: Model 1 has a Mesh of one MeshPart with two
\* triangles, the first at depth 0 or 4 of its own space and the second at
\* depth 2, and two bones; the other Models have empty Meshes.
Depths == {0, 4}
TriangleAt(z) == <<(<<0, 0, z>>), (<<2, 0, z>>), (<<0, 2, z>>)>>

\* bones and weights (in halves) the vertices are bound with: half of each
\* bone (SpecSkin goes through the other bindings)
SkinBindings ==
    {[bones |-> <<1, 2>>, weights |-> <<1, 1>>]}

BoneInfluences == <<NewMatrix4, NewMatrix4Translate(0, 0, 4)>>

\* a view-projection that looks down -z from depth c:
\* w = c - z, depth = 2 * w - 1
ViewProjection(c) ==
    <<(<<1, 0, 0, 0>>), (<<0, 1, 0, 0>>), (<<0, 0, 0 - 2, 0 - 1>>), (<<0, 0, 2 * c - 1, c>>)>>

\* a view-projection that looks down -x from c: w = c - x, depth = 2 * w - 1
ViewProjectionX(c) ==
    <<(<<0, 0, 0 - 2, 0 - 1>>), (<<0, 1, 0, 0>>), (<<1, 0, 0, 0>>), (<<0, 0, 2 * c - 1, c>>)>>

ViewProjections == {ViewProjection(c) : c \in {2, 6}} \cup {ViewProjectionX(6)}
Fars == {5, 100}

\* the cameras of a frame: a view-projection and camera.Far
Cameras ==
    {cam \in [vpMatrix : ViewProjections, Far : Fars] :
        cam.Far = 5 => cam.vpMatrix = ViewProjection(6)}

PipelineTransforms ==
    {IdentityTransform, [IdentityTransform EXCEPT !.p = <<0, 0, 2>>]}

InitPV ==
    /\ \E mat \in PipelineMaterials, z \in Depths :
          Mesh = [m \in Models |->
                    [MeshParts |-> IF m = PipelineModel
                                   THEN <<[Material |-> mat, Tris |-> <<TriangleAt(z), TriangleAt(2)>>]>>
                                   ELSE <<>>]]
    /\ Transform \in {f \in [Models -> PipelineTransforms] :
                         \A m \in Models \ {PipelineModel} : f[m] = IdentityTransform}
    /\ BoundingSphere = [m \in Models |-> NewBoundingSphere(Mesh[m])]
    /\ merged = NoMerge
    /\ DynamicBatchModels = [m \in Models |-> <<>>]
    /\ DynamicBatchOwner = [m \in Models |-> Nil]
    /\ Skinned = FALSE
    /\ \E b \in SkinBindings :
          skin = [bones |-> [v \in VertexIDs |-> b.bones],
                  VertexWeights |-> [v \in VertexIDs |-> b.weights],
                  boneInfluence |-> BoneInfluences]
    /\ skinMatrix = NewMatrix4
    /\ \E h \in {Nil, 1} : hooks = [VertexTransformFunction |-> h, VertexClipFunction |-> h]
    /\ sortingTriangles = NewSortingTriangles(Mesh[PipelineModel])
    /\ vertexTransforms = [v \in VertexIDs |-> <<0, 0, 0, 0>>]
    /\ vertexSkinned = [v \in VertexIDs |-> [Position |-> NoVector, Normal |-> NoVector]]
    /\ hookArgs = [v \in VertexIDs |-> NoHookCall]
    /\ SkinRoot = Nil
    /\ reassigned = NoReassign
    /\ camera = [Far |-> 0, vpMatrix |-> NewMatrix4]
    /\ jank3dMesh = NoMesh
    /\ Vertex = <<>>
    /\ cloned = NoClone
    /\ last = NoCall

NextPV ==
    \/ \E cam \in Cameras, sceneLighting \in (IF Skinned THEN BOOLEAN ELSE {FALSE}) :
          ProcessVertices(cam.vpMatrix, cam.Far, sceneLighting)
    \/ \E b \in BOOLEAN : SetSkinned(b)

SpecPV == InitPV /\ [][NextPV]_vars

\* Skinning on its own: Model 1 has a Mesh of one triangle.  Vertices 0 and
\* 2 are bound with the same list of one or two bone entries, of any bones
\* and weights 0, 1/2 and 1; vertex 1 is bound with half of each bone.
BoneEntries == [bones : {1, 2}, weights : 0..WeightOne]

BoneLists == UNION {[1..n -> BoneEntries] : n \in 1..2}

InitSkin ==
    /\ Mesh = [m \in Models |->
                 [MeshParts |-> IF m = PipelineModel
                                THEN <<[Material |-> Nil, Tris |-> <<TriangleAt(2)>>]>>
                                ELSE <<>>]]
    /\ Transform = [m \in Models |-> IdentityTransform]
    /\ BoundingSphere = [m \in Models |-> NewBoundingSphere(Mesh[m])]
    /\ merged = NoMerge
    /\ DynamicBatchModels = [m \in Models |-> <<>>]
    /\ DynamicBatchOwner = [m \in Models |-> Nil]
    /\ Skinned = TRUE
    /\ \E b \in BoneLists :
          skin = [bones |-> [v \in VertexIDs |->
                                IF v = 1 THEN <<1, 2>> ELSE [k \in 1..Len(b) |-> b[k].bones]],
                  VertexWeights |-> [v \in VertexIDs |->
                                IF v = 1 THEN <<1, 1>> ELSE [k \in 1..Len(b) |-> b[k].weights]],
                  boneInfluence |-> BoneInfluences]
    /\ skinMatrix = NewMatrix4
    /\ hooks = [VertexTransformFunction |-> Nil, VertexClipFunction |-> Nil]
    /\ sortingTriangles = NewSortingTriangles(Mesh[PipelineModel])
    /\ vertexTransforms = [v \in VertexIDs |-> <<0, 0, 0, 0>>]
    /\ vertexSkinned = [v \in VertexIDs |-> [Position |-> NoVector, Normal |-> NoVector]]
    /\ camera = [Far |-> 0, vpMatrix |-> NewMatrix4]
    /\ hookArgs = [v \in VertexIDs |-> NoHookCall]
    /\ SkinRoot = Nil
    /\ reassigned = NoReassign
    /\ jank3dMesh = NoMesh
    /\ Vertex = <<>>
    /\ cloned = NoClone
    /\ last = NoCall

NextSkin == \E vertID \in VertexIDs, transformNormal \in BOOLEAN : SkinVertexCall(vertID, transformNormal)

SpecSkin == InitSkin /\ [][NextSkin]_vars

\* Rebinding: Model 1 has no bones, or two vertices bound to the bones of
\* the first armature.
InitialBones ==
    {<<>>} \cup {(0 :> <<b>>) @@ (1 :> <<b, c>>) : b \in {2, 3}, c \in {2, 3}}

InitBones ==
    /\ Mesh = [m \in Models |-> [MeshParts |-> <<>>]]
    /\ Transform = [m \in Models |-> IdentityTransform]
    /\ BoundingSphere = [m \in Models |-> NewBoundingSphere(Mesh[m])]
    /\ merged = NoMerge
    /\ DynamicBatchModels = [m \in Models |-> <<>>]
    /\ DynamicBatchOwner = [m \in Models |-> Nil]
    /\ Skinned = FALSE
    /\ \E bones \in InitialBones :
          /\ skin = [bones |-> bones, VertexWeights |-> <<>>, boneInfluence |-> <<>>]
          /\ SkinRoot = IF bones = <<>> THEN Nil ELSE 1
    /\ skinMatrix = NewMatrix4
    /\ hooks = [VertexTransformFunction |-> Nil, VertexClipFunction |-> Nil]
    /\ sortingTriangles = <<>>
    /\ vertexTransforms = <<>>
    /\ vertexSkinned = <<>>
    /\ camera = [Far |-> 0, vpMatrix |-> NewMatrix4]
    /\ hookArgs = <<>>
    /\ reassigned = NoReassign
    /\ jank3dMesh = NoMesh
    /\ Vertex = <<>>
    /\ cloned = NoClone
    /\ last = NoCall

NextBones == \E armatureRoot \in Nodes : ReassignBones(armatureRoot)

SpecBones == InitBones /\ [][NextBones]_vars

\* The jank3d Mesh: triangles with legs of 6 in the plane x = 6 and in the
\* plane z = 0, added one or two at a time, moved, turned and cloned.
TriangleYZ(o) == <<(<<o, 0, 0>>), (<<o, 6, 0>>), (<<o, 0, 6>>)>>
TriangleXY == <<(<<0, 0, 0>>), (<<6, 0, 0>>), (<<0, 6, 0>>)>>

TriangleShapes == {TriangleYZ(6), TriangleXY}

\* the vertices AddTriangles is given: those of one triangle or of two
VertexLists == TriangleShapes \cup {a \o b : a \in TriangleShapes, b \in TriangleShapes}

Matrices == {NewMatrix4Translate(0 - 6, 0, 0), RotationZ90}

InitJank3d ==
    /\ Mesh = [m \in Models |-> [MeshParts |-> <<>>]]
    /\ Transform = [m \in Models |-> IdentityTransform]
    /\ BoundingSphere = [m \in Models |-> NewBoundingSphere(Mesh[m])]
    /\ merged = NoMerge
    /\ DynamicBatchModels = [m \in Models |-> <<>>]
    /\ DynamicBatchOwner = [m \in Models |-> Nil]
    /\ InitPipeline
    /\ \E positions \in {<<>>} \cup TriangleShapes :
          /\ Vertex = positions
          /\ jank3dMesh = NewMesh(positions)
    /\ cloned = NoClone
    /\ last = NoCall

NextJank3d ==
    \/ \E positions \in VertexLists : MeshAddTriangles(positions)
    \/ UpdateBounds
    \/ \E matrix \in Matrices : ApplyMatrix(matrix)
    \/ MeshClone

SpecJank3d == InitJank3d /\ [][NextJank3d]_vars

\* ------------------------------------------------------------------ claims: dynamic batching
Range(s) == {s[i] : i \in 1..Len(s)}

\* the Models in any of the mesh-part lists of owner
BatchedUnder(dbm, owner) == UNION {Range(dbm[owner][mp]) : mp \in DOMAIN dbm[owner]}

\* C1: whenever DynamicBatchAdd returns the budget error, that call has left
\* DynamicBatchModels and every DynamicBatchOwner exactly as they were.
C1_BudgetErrorLeavesBatchUnchanged ==
    [][(last'.op = "DynamicBatchAdd" /\ last'.err)
          => (DynamicBatchModels' = DynamicBatchModels /\ DynamicBatchOwner' = DynamicBatchOwner)]_vars

\* C2: a Model is in some list of O.DynamicBatchModels if and only if its
\* DynamicBatchOwner is O (so it is never listed under two owners).
C2_OwnerRelationConsistent ==
    \A m \in Models, o \in Models :
        (m \in BatchedUnder(DynamicBatchModels, o)) <=> (DynamicBatchOwner[m] = o)

\* C3: the aggregate triangle count of the Models batched under an owner
\* never exceeds maxTriangleCount.
C3_BatchWithinBudget ==
    \A o \in Models : DynamicBatchTriangleCount(DynamicBatchModels, o) <= maxTriangleCount

\* C3 witness: an owner is exactly at the maximum and an add has been declined.
C3_Witness ==
    /\ last.op = "DynamicBatchAdd" /\ last.err
    /\ \E o \in Owners : DynamicBatchTriangleCount(DynamicBatchModels, o) = maxTriangleCount

\* C4: DynamicBatchAdd given only the owner itself and Models already batched
\* under it returns no error and changes nothing; the owner is never in its
\* own lists and no Model is twice in the lists of one owner.
C4_SkipSelfAndBatched ==
    /\ \A o \in Owners, mp \in MeshParts, args \in ArgLists :
          (\A i \in 1..Len(args) :
               args[i] = o \/ args[i] \in BatchedUnder(DynamicBatchModels, o))
          => LET r == BatchAddLoop(BatchState, o, mp, args) IN
             /\ ~r.err
             /\ r.dbm = DynamicBatchModels
             /\ r.owner = DynamicBatchOwner
    /\ \A o \in Models :
          /\ o \notin BatchedUnder(DynamicBatchModels, o)
          /\ \A mp1, mp2 \in DOMAIN DynamicBatchModels[o] :
                \A i \in 1..Len(DynamicBatchModels[o][mp1]), j \in 1..Len(DynamicBatchModels[o][mp2]) :
                    DynamicBatchModels[o][mp1][i] = DynamicBatchModels[o][mp2][j]
                    => (mp1 = mp2 /\ i = j)

\* C4 witness: an add that skipped an argument, on an owner that has Models
\* batched under two mesh parts.
C4_Witness ==
    /\ last.op = "DynamicBatchAdd" /\ last.skipped > 0 /\ ~last.err
    /\ \E o \in Owners : Cardinality(DOMAIN DynamicBatchModels[o]) >= 2

SourceTriangles(model, models) ==
    SumSeq([i \in 1..Len(models) |->
               IF models[i] = model THEN 0
               ELSE SumSeq([k \in 1..Len(Mesh[models[i]].MeshParts) |->
                               Len(Mesh[models[i]].MeshParts[k].Tris)])])

\* C6: no MeshPart of any Mesh holds more than maxTriangleCount triangles.
C6_PartsWithinMaximum ==
    \A m \in Models : \A i \in 1..Len(Mesh[m].MeshParts) :
        Len(Mesh[m].MeshParts[i].Tris) <= maxTriangleCount

\* C6 witness: a Merge has opened a new MeshPart although an older MeshPart
\* has the same material, the two together being over the maximum.
C6_Witness ==
    /\ last.op = "Merge"
    /\ \E n \in 1..Len(merged.placed) :
          LET e == merged.placed[n] IN
          /\ e.targetPart = Len(e.before) + 1
          /\ \E i \in 1..Len(e.before) :
                /\ e.before[i].Material = e.part.Material
                /\ Len(e.before[i].Tris) + Len(e.part.Tris) > maxTriangleCount

\* C7: a Merge call adds to the receiver's Mesh exactly the triangles of all
\* MeshParts of its arguments other than the receiver, and leaves the other
\* Meshes alone.
C7_MergeConservesTriangles ==
    [][last'.op = "Merge" =>
          /\ MeshTriangles(Mesh'[merged'.model])
                = MeshTriangles(Mesh[merged'.model]) + SourceTriangles(merged'.model, merged'.models)
          /\ \A m \in Models \ {merged'.model} : Mesh'[m] = Mesh[m]]_vars

\* C7 witness: a Merge given its receiver and a Model of two MeshParts has
\* copied vertices.
C7_Witness ==
    /\ last.op = "Merge"
    /\ merged.verts # {}
    /\ merged.model \in Range(merged.models)
    /\ \E i \in 1..Len(merged.models) : Len(Mesh[merged.models[i]].MeshParts) = 2

\* C8: the triangles of a source MeshPart go to an existing MeshPart of the
\* receiver that has the same material and can take them without exceeding
\* maxTriangleCount; a new MeshPart, with the source's material, is created
\* only if there is no such MeshPart.
C8_NewPartOnlyWhenNoneFits ==
    \A n \in 1..Len(merged.placed) :
        LET e == merged.placed[n]
            CanTake == {i \in 1..Len(e.before) :
                           /\ e.before[i].Material = e.part.Material
                           /\ Len(e.before[i].Tris) + Len(e.part.Tris) <= maxTriangleCount}
        IN /\ Mesh[merged.model].MeshParts[e.targetPart].Material = e.part.Material
           /\ IF CanTake = {} THEN e.targetPart = Len(e.before) + 1
                              ELSE e.targetPart \in CanTake

\* C9: every vertex Merge copies keeps its world position: the receiver's
\* world transform takes the stored position to where the source Model's
\* world transform takes the original one.
C9_MergeKeepsWorldPlacement ==
    \A e \in merged.verts :
        fastMatrixMultVec(WorldMatrix(Transform[merged.model]), e.out)
            = fastMatrixMultVec(WorldMatrix(Transform[e.src]), e.v)

\* a triangle's three projected vertices, as ProcessVertices left them
Projected(triID) == [v \in 0..2 |-> vertexTransforms[triID * 3 + v]]

\* the visibility test of a projected vertex against the far plane
InClipRange(t, far) == t[4] >= 0 /\ t[3] < far

\* C10: after ProcessVertices, skinned or not, every triangle none of whose
\* three projected vertices has w >= 0 and depth < far has rendered = FALSE:
\* no triangle is marked rendered without having passed the visibility test
\* of that frame.
C10_CulledTrianglesNotRendered ==
    last.op = "ProcessVertices" =>
        \A i \in 1..Len(sortingTriangles) :
            (\A v \in 0..2 : ~InClipRange(Projected(sortingTriangles[i].ID)[v], camera.Far))
                => ~sortingTriangles[i].rendered

\* a skinned frame culled a triangle that the frames before had rendered,
\* all of its vertices behind the camera, and kept the other one
C10_Witness ==
    /\ last.op = "ProcessVertices"
    /\ Skinned
    /\ \E i, j \in 1..Len(sortingTriangles) :
          /\ \A v \in 0..2 : Projected(sortingTriangles[i].ID)[v][4] < 0
          /\ ~sortingTriangles[i].rendered
          /\ \E v \in 0..2 : InClipRange(Projected(sortingTriangles[j].ID)[v], camera.Far)
          /\ sortingTriangles[j].rendered

\* C11: after every ProcessVertices, skinned or not, every triangle with at
\* least one projected vertex having w >= 0 and depth < far has
\* rendered = TRUE, whatever its flag was after the frames before.
C11_VisibleTrianglesRendered ==
    last.op = "ProcessVertices" =>
        \A i \in 1..Len(sortingTriangles) :
            (\E v \in 0..2 : InClipRange(Projected(sortingTriangles[i].ID)[v], camera.Far))
                => sortingTriangles[i].rendered

\* the triangle IDs of a list of sorting triangles, in the order of the list
TriangleIDs(s) == [i \in 1..Len(s) |-> s[i].ID]

\* s and t hold the same triangles, each once
IsPermutation(s, t) ==
    /\ Len(s) = Len(t)
    /\ \A i \in 1..Len(s) : \E j \in 1..Len(t) : s[i] = t[j]
    /\ \A i, j \in 1..Len(s) : s[i] = s[j] => i = j

\* the sort mode ProcessVertices uses for the MeshPart
SortModeOf(material) ==
    IF material = Nil THEN "BackToFront" ELSE MaterialTable[material].TriangleSortMode

\* the kept triangles of a list, in the order of the list
Kept(s) == SelectSeq(s, LAMBDA tri : tri.rendered)

\* C12: a ProcessVertices call leaves the kept (rendered) triangles in
\* non-increasing order of depth key when the material is back-to-front or
\* the part has none, in non-decreasing order when it is front-to-back, and
\* the list is a permutation of the list before the call.
C12_KeptTrianglesSorted ==
    [][last'.op = "ProcessVertices" =>
          LET kept == Kept(sortingTriangles')
              sortMode == SortModeOf(PipelinePart.Material)
          IN /\ IsPermutation(TriangleIDs(sortingTriangles), TriangleIDs(sortingTriangles'))
             /\ sortMode = "BackToFront" =>
                   \A i \in 1..(Len(kept) - 1) : kept[i].depth >= kept[i + 1].depth
             /\ sortMode = "FrontToBack" =>
                   \A i \in 1..(Len(kept) - 1) : kept[i].depth <= kept[i + 1].depth]_vars

\* a back-to-front frame has put the second triangle in front of the first
\* in the list, both kept and of different depth keys
C12_Witness ==
    /\ last.op = "ProcessVertices"
    /\ SortModeOf(PipelinePart.Material) = "BackToFront"
    /\ TriangleIDs(sortingTriangles) = <<1, 0>>
    /\ sortingTriangles[1].rendered /\ sortingTriangles[2].rendered
    /\ sortingTriangles[1].depth > sortingTriangles[2].depth

\* the depth key of a triangle in the last frame: the least w of its
\* projected vertices
DepthKey(triID) ==
    MinDepth(<<Projected(triID)[0][4], Projected(triID)[1][4], Projected(triID)[2][4]>>)

\* C13: after every ProcessVertices of any sequence of frames, two triangles
\* whose depth keys are equal in that frame are in sortingTriangles in their
\* relative order as constructed (the order of their IDs), however their
\* depths compared in the frames before.
C13_EqualDepthKeepsConstructedOrder ==
    last.op = "ProcessVertices" =>
        \A i, j \in 1..Len(sortingTriangles) :
            (i < j /\ DepthKey(sortingTriangles[i].ID) = DepthKey(sortingTriangles[j].ID))
                => sortingTriangles[i].ID < sortingTriangles[j].ID

\* the position of a vertex before the hooks: skinned by its bones, or as
\* the Mesh holds it
PreHookPosition(vertID) ==
    IF Skinned THEN skinVertex(vertID, FALSE).vertOut ELSE VertexPositions(vertID)

\* the matrix the last frame projected with
ProjectionMatrix ==
    IF Skinned THEN camera.vpMatrix
    ELSE Mult(WorldMatrix(Transform[PipelineModel]), camera.vpMatrix)

\* the clip-space position of a vertex with both hooks applied where set
HookedProjection(vertID) ==
    LET projected == fastMatrixMultVecW(ProjectionMatrix,
                                        transformFunc(PreHookPosition(vertID), vertID))
    IN IF hooks.VertexClipFunction # Nil THEN BehindCamera(projected, vertID) ELSE projected

\* C14: in ProcessVertices, skinned or not, every vertex of every processed
\* triangle gets the VertexTransformFunction (when set) before projection
\* and the VertexClipFunction (when set) on its clip-space position after
\* projection, and the visibility test is made on the hooks' results.
C14_HooksApplied ==
    last.op = "ProcessVertices" =>
        \A i \in 1..Len(sortingTriangles) :
            LET triID == sortingTriangles[i].ID IN
            /\ \A v \in 0..2 : vertexTransforms[triID * 3 + v] = HookedProjection(triID * 3 + v)
            /\ sortingTriangles[i].rendered =>
                  \E v \in 0..2 : InClipRange(HookedProjection(triID * 3 + v), camera.Far)

\* the world position of a vertex: the mesh position under the Model's world
\* transform or, for a skinned Model, under the skin matrix
WorldPosition(vertID) ==
    IF Skinned THEN skinVertex(vertID, FALSE).vertOut
    ELSE fastMatrixMultVec(WorldMatrix(Transform[PipelineModel]), VertexPositions(vertID))

\* C15: the VertexTransformFunction is called with the world position of the
\* vertex and its index triID * 3 + v, for skinned and non-skinned Models.
C15_HookGetsWorldPosition ==
    (last.op = "ProcessVertices" /\ hooks.VertexTransformFunction # Nil) =>
        \A i \in 1..Len(sortingTriangles) : \A v \in 0..2 :
            LET vertID == sortingTriangles[i].ID * 3 + v IN
            hookArgs[vertID] = [vertexPosition |-> WorldPosition(vertID), vertexIndex |-> vertID]

\* the first bone entry of weight 1.0 of a vertex, 0 if it has none
RECURSIVE FirstFullWeight(_, _)
FirstFullWeight(vertID, k) ==
    IF k > Len(skin.VertexWeights[vertID]) THEN 0
    ELSE IF skin.VertexWeights[vertID][k] = WeightOne THEN k
    ELSE FirstFullWeight(vertID, k + 1)

\* C16: for a vertex with a bone entry of weight exactly 1.0, skinVertex
\* returns the position under exactly that bone's influence matrix; the
\* entries before and after it contribute nothing, whatever their weights.
\* (Of several entries of weight 1.0 the first one counts.)
C16_SkinShortCircuit ==
    \A vertID \in DOMAIN vertexSkinned :
        (vertexSkinned[vertID].Position # NoVector /\ FirstFullWeight(vertID, 1) # 0) =>
            vertexSkinned[vertID].Position =
                fastMatrixMultVec(skin.boneInfluence[skin.bones[vertID][FirstFullWeight(vertID, 1)]],
                                  VertexPositions(vertID))

\* skinVertex has run on a vertex whose entry of weight 1.0 comes after an
\* entry of weight 1/2 on the other bone
C16_Witness ==
    /\ last.op = "skinVertex"
    /\ \E vertID \in DOMAIN vertexSkinned :
          /\ vertexSkinned[vertID].Position # NoVector
          /\ skin.VertexWeights[vertID] = <<1, WeightOne>>
          /\ skin.bones[vertID] = <<1, 2>>

\* C17: ReassignBones called with a node that is a bone panics and does not
\* proceed, on any Model: SkinRoot and every bone binding stay as they were.
C17_ReassignToBonePanics ==
    [][(last'.op = "ReassignBones" /\ IsBone(reassigned'.armatureRoot))
          => (reassigned'.panicked /\ SkinRoot' = SkinRoot /\ skin'.bones = skin.bones)]_vars

\* C18: after Mesh.ApplyMatrix every triangle's Center is the centroid of
\* its vertices' new positions and its Normal is calculateNormal of them.
C18_ApplyMatrixRecomputesDerived ==
    last.op = "ApplyMatrix" =>
        \A i \in 1..Len(jank3dMesh.Triangles) :
            LET tri == jank3dMesh.Triangles[i] IN
            /\ tri.Center = RecalculateCenter(tri, Vertex).Center
            /\ tri.Normal = calculateNormal(Vertex[tri.Vertices[1]], Vertex[tri.Vertices[2]],
                                            Vertex[tri.Vertices[3]])

\* the positions of the mesh's vertices on axis k
AxisValues(k) == {Vertex[jank3dMesh.Vertices[j]][k] : j \in 1..Len(jank3dMesh.Vertices)}

\* C19: after Mesh.UpdateBounds the sphere's center is the midpoint of the
\* per-axis minimum and maximum of the vertex positions and its radius is
\* half the diagonal of that extent, also for a mesh on one side of the
\* origin.
C19_BoundsAreTheExtent ==
    (last.op = "UpdateBounds" /\ Len(jank3dMesh.Vertices) > 0) =>
        /\ jank3dMesh.BoundingSphere.Position =
              [k \in 1..3 |-> (MinOf(AxisValues(k)) + MaxOf(AxisValues(k))) \div 2]
        /\ jank3dMesh.BoundingSphere.DiameterSq =
              MagnitudeSq([k \in 1..3 |-> MaxOf(AxisValues(k)) - MinOf(AxisValues(k))])

\* C20: after any NewMesh and AddTriangles calls every added vertex occurs
\* exactly once in the mesh's vertices, so that there are three for each
\* triangle.
C20_VerticesNotDuplicated ==
    /\ Len(jank3dMesh.Vertices) = 3 * Len(jank3dMesh.Triangles)
    /\ \A i, j \in 1..Len(jank3dMesh.Vertices) :
          jank3dMesh.Vertices[i] = jank3dMesh.Vertices[j] => i = j

\* the triangle passed the visibility test of the last frame
PassedVisibility(triID) ==
    \E v \in 0..2 : InClipRange(Projected(triID)[v], camera.Far)

\* key is the least of the component k of the triangle's projected vertices
IsLeastComponent(key, triID, k) ==
    /\ \E v \in 0..2 : key = Projected(triID)[v][k]
    /\ \A v \in 0..2 : key <= Projected(triID)[v][k]

\* C21 as stated: after ProcessVertices the sort key of every triangle that
\* passed the visibility test is the least clip-space w of its three
\* projected vertices for a non-skinned Model and the least clip-space depth
\* component for a skinned one.
C21_DepthKeyPerPath ==
    last.op = "ProcessVertices" =>
        \A i \in 1..Len(sortingTriangles) :
            PassedVisibility(sortingTriangles[i].ID) =>
                IsLeastComponent(sortingTriangles[i].depth, sortingTriangles[i].ID,
                                 IF Skinned THEN 3 ELSE 4)

\* C21 amended: after ProcessVertices the sort key of every triangle that
\* passed the visibility test is the least clip-space w of its three
\* projected vertices (which the code stores as a float32), for skinned and
\* non-skinned Models alike.
C21_DepthKeyIsLeastW ==
    last.op = "ProcessVertices" =>
        \A i \in 1..Len(sortingTriangles) :
            PassedVisibility(sortingTriangles[i].ID) =>
                IsLeastComponent(sortingTriangles[i].depth, sortingTriangles[i].ID, 4)

\* a skinned frame kept a triangle whose least w is not its least depth
\* component
C21_Witness ==
    /\ last.op = "ProcessVertices"
    /\ Skinned
    /\ \E i \in 1..Len(sortingTriangles) :
          /\ PassedVisibility(sortingTriangles[i].ID)
          /\ ~IsLeastComponent(sortingTriangles[i].depth, sortingTriangles[i].ID, 3)

\* what can be in the scratch matrix when skinVertex is called
ScratchStates == {ZeroMatrix, NewMatrix4, ScaleByScalar(BoneInfluences[2], WeightOne)}

\* the positions and normals skinVertex has returned are those it returns
\* from any scratch matrix
ReturnsFromAnyScratch ==
    \A vertID \in DOMAIN vertexSkinned :
        vertexSkinned[vertID].Position # NoVector =>
            \A m \in ScratchStates \cup {skinMatrix} :
                /\ vertexSkinned[vertID].Position = skinVertexFrom(m, vertID, FALSE).vertOut
                /\ vertexSkinned[vertID].Normal # NoVector =>
                      vertexSkinned[vertID].Normal = skinVertexFrom(m, vertID, TRUE).normal

C23_MergeSphereInWorldSpace ==
    (last.op = "Merge" /\ merged.verts # {}) =>
        BoundingSphere[merged.model] =
            TransformUpdate(Mesh[merged.model], Transform[merged.model])

\* the nodes ChildrenRecursive gives for a node
Descendants(node) == {ChildrenRecursive(node)[k] : k \in 1..Len(ChildrenRecursive(node))}

\* C24: when ReassignBones(armatureRoot) returns for a Model with bone
\* bindings, SkinRoot is armatureRoot and every binding of every vertex is a
\* bone among armatureRoot's descendants with the name of the bone it
\* replaced; none is nil, also when the armature has no bone of that name.
C24_ReassignBindsEveryBone ==
    [][(last'.op = "ReassignBones" /\ ~reassigned'.panicked /\ DOMAIN skin.bones # {}) =>
          /\ SkinRoot' = reassigned'.armatureRoot
          /\ \A vertexIndex \in DOMAIN skin.bones :
                \A i \in 1..Len(skin.bones[vertexIndex]) :
                    /\ skin'.bones[vertexIndex][i] # Nil
                    /\ skin'.bones[vertexIndex][i] \in Descendants(reassigned'.armatureRoot)
                    /\ IsBone(skin'.bones[vertexIndex][i])
                    /\ NodeName(skin'.bones[vertexIndex][i]) = NodeName(skin.bones[vertexIndex][i])]_vars

\* C25: a ProcessVertices call, skinned or not, leaves the Mesh's stored
\* vertex positions as they were, also when the VertexTransformFunction
\* writes into the vector it is given; a second run of the same frame
\* therefore calls the hook with the same positions as the first.
C25_VertexPositionsUnchanged ==
    [][last'.op = "ProcessVertices" =>
          /\ Mesh' = Mesh
          /\ (last.op = "ProcessVertices" /\ camera' = camera) => hookArgs' = hookArgs]_vars

\* a frame has called the hook on every vertex of a non-skinned Model, with
\* the position the Mesh holds
C25_Witness ==
    /\ last.op = "ProcessVertices"
    /\ ~Skinned
    /\ hooks.VertexTransformFunction # Nil
    /\ \A vertID \in VertexIDs :
          /\ hookArgs[vertID].vertexPosition = VertexPositions(vertID)
          /\ vertexTransforms[vertID] # fastMatrixMultVecW(ProjectionMatrix, VertexPositions(vertID))

\* C26: Mesh.Clone of any Mesh, also one with triangles, returns without
\* panicking a new Mesh of as many triangles as the original, each of three
\* new vertices at the positions of the original's and with its Mesh field
\* pointing to the new Mesh.
C26_CloneReturnsEqualMesh ==
    last.op = "Clone" =>
        /\ ~cloned.panicked
        /\ Len(cloned.newMesh.Triangles) = Len(jank3dMesh.Triangles)
        /\ \A i \in 1..Len(cloned.newMesh.Triangles) :
              LET newTri == cloned.newMesh.Triangles[i]
                  tri == jank3dMesh.Triangles[i]
              IN /\ Len(newTri.Vertices) = 3
                 /\ \A k \in 1..3 : /\ newTri.Vertices[k] # tri.Vertices[k]
                                     /\ Vertex[newTri.Vertices[k]] = Vertex[tri.Vertices[k]]
                 /\ newTri.Mesh = "newMesh"

====
